---- MODULE Spec2Model ----
(***************************************************************************)
(* Model of installer/__main__.py: the multipath-tcp kernel installer.     *)
(*                                                                         *)
(* A Python str is modelled as a sequence of tokens (the pieces the code   *)
(* looks at: prefixes, markers, version numbers, separators), so that      *)
(* startswith / in / re.search / split / join are computed, not assumed.   *)
(* An optional value is <<>> (None, unbound) or <<v>> (a value).           *)
(***************************************************************************)
EXTENDS Integers, Sequences, FiniteSets, TLC

\* Number of successive invocations of main() (processes) explored.
MaxRuns == 2

None == <<>>
Some(v) == <<v>>

Range(s) == {s[i] : i \in 1..Len(s)}

----------------------------------------------------------------------------
\* Strings

\* str.startswith(p) for a prefix p that is one token
StartsWith(s, p) == Len(s) > 0 /\ s[1] = p

\* `tok in s` for a marker that is one token
Contains(s, tok) == \E i \in 1..Len(s) : s[i] = tok

\* str.endswith('.deb')
DebSuffixes == {"_amd64.deb", "_all.deb"}
EndsWithDeb(s) == Len(s) > 0 /\ s[Len(s)] \in DebSuffixes

\* x.split()[-1].strip(): the last whitespace-separated word of a line
RECURSIVE LastWord(_)
LastWord(s) ==
    IF s = <<>> THEN <<>>
    ELSE IF s[Len(s)] = " " THEN <<>>
    ELSE Append(LastWord(SubSeq(s, 1, Len(s) - 1)), s[Len(s)])

\* ';'.join(list of str)
RECURSIVE Join(_)
Join(l) ==
    IF l = <<>> THEN <<>>
    ELSE IF Len(l) = 1 THEN l[1]
    ELSE l[1] \o <<";">> \o Join(Tail(l))

\* str.split(sep): always at least one element, '' splits to ['']
RECURSIVE Split(_, _)
Split(s, sep) ==
    IF \A i \in 1..Len(s) : s[i] # sep THEN <<s>>
    ELSE LET i == CHOOSE k \in 1..Len(s) :
                      s[k] = sep /\ \A j \in 1..(k - 1) : s[j] # sep
         IN  <<SubSeq(s, 1, i - 1)>> \o Split(SubSeq(s, i + 1, Len(s)), sep)

\* str.split(): words separated by whitespace, no empty words
Words(s) == SelectSeq(Split(s, " "), LAMBDA w : w # <<>>)

----------------------------------------------------------------------------
\* Patterns

Versions == {"v2.0", "v2.1"}
KernelVersions == {"5.4.230", "5.4.243"}

\* VERSION_PAT.search(text): the text ends with a version tag
VersionMatch(text) ==
    IF Len(text) > 0 /\ text[Len(text)] \in Versions
    THEN Some(<<text[Len(text)]>>) ELSE None

\* KERNEL_VERSION_PAT.search(filename): linux-image-<digits and dots>.mptcp
KernelVersionMatch(f) ==
    LET hits == {i \in 1..(Len(f) - 3) :
                    /\ f[i] = "linux-image" /\ f[i + 1] = "-"
                    /\ f[i + 2] \in KernelVersions /\ f[i + 3] = ".mptcp"}
    IN  IF hits = {} THEN None
        ELSE LET i == CHOOSE k \in hits : \A j \in hits : k <= j
             IN  Some(<<f[i + 2]>>)

----------------------------------------------------------------------------
\* configparser: a section is a sequence of <<option, value>> in insertion
\* order; the file is a sequence of lines, a section header or an item.

HasOption(sec, key) == \E i \in 1..Len(sec) : sec[i][1] = key

\* _progress.get(section, option), defined when HasOption (else NoOptionError)
Get(sec, key) == sec[CHOOSE i \in 1..Len(sec) : sec[i][1] = key][2]

\* _progress.set(section, option, value)
Set(sec, key, val) ==
    IF HasOption(sec, key)
    THEN [i \in 1..Len(sec) |-> IF sec[i][1] = key THEN <<key, val>> ELSE sec[i]]
    ELSE Append(sec, <<key, val>>)

EmptyProgress == [Files |-> <<>>, General |-> <<>>]

\* only the [General] section is written
SerializeGeneral(prog) == <<<<"[General]", <<>>>>>> \o prog.General

\* _progress.write(fw): sections in order, each a header then its items
Serialize(prog) ==
    <<<<"[Files]", <<>>>>>> \o prog.Files \o <<<<"[General]", <<>>>>>> \o prog.General

\* _progress.read(PROGRESS_FILE) followed by add_section for both sections
RECURSIVE ParseFrom(_, _, _)
ParseFrom(lines, cur, prog) ==
    IF lines = <<>> THEN prog
    ELSE LET l == Head(lines) IN
         IF l[1] = "[Files]" THEN ParseFrom(Tail(lines), "Files", prog)
         ELSE IF l[1] = "[General]" THEN ParseFrom(Tail(lines), "General", prog)
         ELSE IF cur = "Files"
              THEN ParseFrom(Tail(lines), cur, [prog EXCEPT !.Files = Append(@, l)])
              ELSE ParseFrom(Tail(lines), cur, [prog EXCEPT !.General = Append(@, l)])

Load(lines) == ParseFrom(lines, "Files", EmptyProgress)

\* What a file opened with 'w' holds when the process dies before the write
\* is complete: truncated to nothing, or the lines written so far.
TornWrites(lines) == {SubSeq(lines, 1, n) : n \in 0..(Len(lines) - 1)}

----------------------------------------------------------------------------
\* Inputs: release assets, release pages, bootloader menus

Image(kv, arch) == <<"linux-image", "-", kv, ".mptcp", arch>>
ImageDbg(kv, arch) == <<"linux-image", "-", kv, ".mptcp", "-dbg", arch>>
Headers(kv, arch) == <<"linux-headers", "-", kv, ".mptcp", arch>>

img230 == Image("5.4.230", "_amd64.deb")
img243 == Image("5.4.243", "_amd64.deb")
dbg230 == ImageDbg("5.4.230", "_amd64.deb")
dbg243 == ImageDbg("5.4.243", "_amd64.deb")
imgbad == <<"linux-image", "-", "unsigned", "_amd64.deb">>
hdr230 == Headers("5.4.230", "_amd64.deb")
hdr243 == Headers("5.4.243", "_amd64.deb")
hdr243all == Headers("5.4.243", "_all.deb")
libc230 == <<"linux-libc-dev", "_", "5.4.230", "_amd64.deb">>
mptcp096 == <<"linux-mptcp", "_", "v0.96", "_all.deb">>
rt243 == <<"linux-rt-image", "-", "5.4.243", ".mptcp", "_amd64.deb">>

\* One line of the checksum listing of a release: "<sum>  <filename>"
SumLine(f) == <<"sha256", " ">> \o f

\* One release heading with its <pre> block
Release(v, fs) ==
    [h2 |-> <<"MPTCP ", v>>,
     pre |-> <<<<"SHA256", " ", "checksums:">>>> \o [i \in 1..Len(fs) |-> SumLine(fs[i])]]

NoRelease == [h2 |-> <<"Releases">>, pre |-> <<>>]

Pages == {
    <<Release("v2.0", <<img230, hdr230>>)>>,
    <<Release("v2.0", <<dbg230, img230, libc230, mptcp096>>)>>,
    <<Release("v2.0", <<hdr230, imgbad>>)>>,
    <<NoRelease, Release("v2.1", <<img243, hdr243>>), Release("v2.0", <<img230, hdr230>>)>>,
    <<Release("v2.1", <<img243, rt243>>)>>,
    <<Release("v2.1", <<rt243, img243>>)>>,
    <<Release("v2.1", <<dbg243>>)>>,
    <<Release("v2.1", <<hdr243>>)>>,
    <<Release("v2.1", <<>>)>>,
    <<Release("v2.1", <<hdr243, hdr243all, img243>>)>>,
    <<Release("v2.1", <<img230, hdr243>>)>>,
    <<NoRelease>> }

\* One line of /boot/grub/grub.cfg
MenuEntry(ind, kv, flavour) ==
    [indent |-> ind,
     text |-> <<"menuentry", " ", "'Linux ", kv, ".mptcp", "'", " ",
                "gnulinux-", kv, ".", flavour, " ", "{">>]
OtherLine == [indent |-> TRUE, text |-> <<"linux", " ", "/boot/vmlinuz">>]

GrubCfgs == {
    <<MenuEntry(FALSE, "5.4.230", "mptcp-advanced"), OtherLine,
      MenuEntry(TRUE, "5.4.230", "mptcp-recovery"),
      MenuEntry(TRUE, "5.4.230", "mptcp-advanced"),
      MenuEntry(TRUE, "5.4.243", "mptcp-advanced")>>,
    <<MenuEntry(TRUE, "5.4.230", "mptcp-advanced"), OtherLine>>,
    <<MenuEntry(FALSE, "5.4.243", "mptcp-advanced"), OtherLine>> }

----------------------------------------------------------------------------
\* create_http_client(), lines 26-34: the Retry policy mounted on the session

RetryTotal == 3
StatusForcelist == {"500", "502", "503", "504", "521"}
AllowedMethods == {"POST"}

\* What a server may answer to the successive attempts of one request: a
\* status, or "reset" when the connection breaks while the body is read
Servers == {<<"200">>, <<"503", "200">>, <<"503", "503", "503", "503", "503">>,
            <<"404">>, <<"reset">>}

\* Retry.is_retry(method, status_code): the response is retried
IsRetry(method, status) ==
    method \in AllowedMethods /\ status \in StatusForcelist

\* One request through the session: the attempts made and the last answer,
\* the k-th attempt being answered by answers[k]
RECURSIVE Attempt(_, _, _, _)
Attempt(method, url, answers, k) ==
    IF IsRetry(method, answers[k])
    THEN IF k <= RetryTotal /\ k < Len(answers)
         THEN Attempt(method, url, answers, k + 1)
         ELSE [method |-> method, url |-> url, status |-> "MaxRetryError",
               attempts |-> k, first |-> answers[1]]
    ELSE [method |-> method, url |-> url, status |-> answers[k],
          attempts |-> k, first |-> answers[1]]

Request(method, url, answers) == Attempt(method, url, answers, 1)

\* every response counts as a success
OkAlways(res) == TRUE

\* the request itself raises: broken connection or retries exhausted
Raised(res) == res.status \in {"reset", "MaxRetryError"}

\* res.ok / res.raise_for_status()
Ok(res) == res.status = "200"

NoRequest == [method |-> "", url |-> <<>>, status |-> "", attempts |-> 0,
              first |-> ""]

\* lines 17, 82 and 155: the urls requested
BASEURL == <<"releases">>
AssetUrl(version, filename) == BASEURL \o <<"download">> \o version \o filename

----------------------------------------------------------------------------
\* State

VARIABLES
    progress_file,   \* PROGRESS_FILE on disk: the lines of progress.ini
    destdirs,        \* ROOT_DIR/var/download: the <<version, filename>> of
                     \* the files completely written there
    page,            \* the release page the server holds during this run
    runs,            \* invocations of main() started so far
    pc,              \* where the process is (or ended): idle, index, loop,
                     \* install, grub, commit, end
    exit,            \* "running", or how the process ended: "0", "1",
                     \* "exception", "killed"
    err,             \* which fatal condition ended it
    _progress,       \* the in-memory ConfigParser
    latest_version, files, last_version, old_versions,
    idx,             \* position of the for loop over files
    downloads, kernel_version,
    inst,            \* position of the for loop over downloads
    fetched,         \* asset GETs that completed in this run, in order
    installed,       \* dpkg -i calls attempted in this run, in order
    grub_cfg,        \* the grub.cfg update_grub read
    grub_calls,      \* bootloader commands attempted in this run, in order
    saves,           \* save_progress() calls started in this run
    last_request,    \* the last request made through the http client
    file_at_start,   \* PROGRESS_FILE as it was when the process started
    prev,            \* how the previous process ended
    committed_from   \* the asset list the last commit was made from, and
                     \* whether a download was recorded since

vars == <<progress_file, destdirs, page, runs, pc, exit, err, _progress, latest_version,
          files, last_version, old_versions, idx, downloads, kernel_version,
          inst, fetched, installed, grub_cfg, grub_calls, saves,
          last_request, file_at_start, prev, committed_from>>

world == <<progress_file, destdirs, page>>
locals == <<_progress, latest_version, files, last_version, old_versions, idx,
            downloads, kernel_version, inst>>
effects == <<fetched, installed, grub_cfg, grub_calls, saves, last_request>>

NoPrev == [page |-> <<>>, exit |-> "none", pc |-> "idle", recorded |-> {},
           fetched |-> {}, installed |-> <<>>]

Init ==
    /\ progress_file = <<>>
    /\ destdirs = {}
    /\ page = <<>>
    /\ runs = 0
    /\ pc = "idle"
    /\ exit = "none"
    /\ err = "none"
    /\ _progress = EmptyProgress
    /\ latest_version = <<>>
    /\ files = <<>>
    /\ last_version = None
    /\ old_versions = <<>>
    /\ idx = 1
    /\ downloads = <<>>
    /\ kernel_version = None
    /\ inst = 1
    /\ fetched = <<>>
    /\ installed = <<>>
    /\ grub_cfg = <<>>
    /\ grub_calls = <<>>
    /\ saves = 0
    /\ last_request = NoRequest
    /\ file_at_start = <<>>
    /\ prev = NoPrev
    /\ committed_from = [files |-> <<>>, touched |-> FALSE,
                         history |-> <<>>, clean |-> TRUE]

Running == exit = "running"

\* The process ends where it is: return code, uncaught exception, or killed
Finish(how, why) ==
    /\ exit' = how
    /\ err' = why
    /\ UNCHANGED pc

\* Where control goes once files[1..i-1] are handled: the next iteration of
\* the loop over files (line 118), else the loop over downloads (line 175)
\* if it has anything to do, else update_grub (line 178)
AfterFile(i, fs, dl) ==
    IF i <= Len(fs) THEN "loop" ELSE IF Len(dl) > 0 THEN "install" ELSE "grub"

----------------------------------------------------------------------------
\* main(), lines 73-79: a new process starts, reads progress.ini and makes
\* sure both sections exist.  The server holds some release page.
StartRun ==
    /\ ~Running
    /\ runs < MaxRuns
    /\ runs' = runs + 1
    /\ \E p \in Pages : page' = p
    /\ prev' = [page |-> page, exit |-> exit, pc |-> pc,
                recorded |-> IF err \in {"TornSave", "KilledBeforeSave"}
                             THEN Range(SubSeq(fetched, 1, Len(fetched) - 1))
                             ELSE Range(fetched),
                fetched |-> Range(fetched),
                installed |-> installed]
    /\ _progress' = Load(progress_file)
    /\ file_at_start' = progress_file
    /\ pc' = "index"
    /\ exit' = "running"
    /\ err' = "none"
    /\ latest_version' = <<>>
    /\ files' = <<>>
    /\ last_version' = None
    /\ old_versions' = <<>>
    /\ idx' = 1
    /\ downloads' = <<>>
    /\ kernel_version' = None
    /\ inst' = 1
    /\ fetched' = <<>>
    /\ installed' = <<>>
    /\ grub_cfg' = <<>>
    /\ grub_calls' = <<>>
    /\ saves' = 0
    /\ last_request' = NoRequest
    /\ UNCHANGED <<progress_file, destdirs, committed_from>>

\* lines 108-112: the deprecated versions read from the record
OldVersions(prog) ==
    IF HasOption(prog.General, "deprecated_versions")
    THEN Split(Get(prog.General, "deprecated_versions"), ";")
    ELSE <<>>

\* lines 88-96: the first heading that matches VERSION_PAT, with the .deb
\* lines of its <pre>; 0 when no heading matches
LatestHeading(doc) ==
    LET hits == {i \in 1..Len(doc) : VersionMatch(doc[i].h2) # None}
    IN  IF hits = {} THEN 0 ELSE CHOOSE k \in hits : \A j \in hits : k <= j

DebFiles(pre) ==
    LET lines == SelectSeq(pre, EndsWithDeb)
    IN  [i \in 1..Len(lines) |-> LastWord(lines[i])]

\* the version check never succeeds
UpToDateNever(last, latest) == FALSE

\* line 105: the last committed version is the latest one
UpToDate(last, latest) == last = Some(latest)

\* line 182: `if last_version:`
Truthy(opt) == opt # None /\ opt[1] # <<>>

\* lines 81-117: fetch and parse the release page, compare with the last
\* committed version, read the deprecated versions
FetchIndex ==
    /\ Running /\ pc = "index"
    /\ \E server \in Servers :
       LET res == Request("GET", BASEURL, server) IN
       /\ last_request' = res
       /\ IF Raised(res)
          THEN \* ua.get raises
               /\ Finish("exception", "RequestFailure")
               /\ UNCHANGED <<locals, world>>
          ELSE IF ~Ok(res)
          THEN \* lines 83-85
               /\ Finish("1", "RequestFailure")
               /\ UNCHANGED <<locals, world>>
          ELSE
          LET h == LatestHeading(page) IN
          IF h = 0
          THEN /\ Finish("1", "CatalogFormatError")
               /\ UNCHANGED <<locals, world>>
          ELSE LET latest == VersionMatch(page[h].h2)[1]
                   last == IF HasOption(_progress.General, "version")
                           THEN Some(Get(_progress.General, "version"))
                           ELSE None
               IN  /\ latest_version' = latest
                   /\ files' = DebFiles(page[h].pre)
                   /\ last_version' = last
                   /\ IF UpToDate(last, latest)
                      THEN /\ Finish("0", "none")
                           /\ UNCHANGED old_versions
                      ELSE /\ pc' = AfterFile(1, DebFiles(page[h].pre), <<>>)
                           /\ UNCHANGED <<exit, err>>
                           /\ old_versions' = OldVersions(_progress)
                   /\ UNCHANGED <<_progress, idx, downloads, kernel_version,
                                  inst, world>>
    /\ UNCHANGED <<runs, fetched, installed, grub_cfg, grub_calls, saves,
                   file_at_start, prev, committed_from>>

\* no else branch: a filename of no known kind is handled as the last kind
LookupKeyNoElse(filename) ==
    IF StartsWith(filename, "linux-headers") THEN "linux-headers"
    ELSE IF StartsWith(filename, "linux-image") THEN "linux-image"
    ELSE IF StartsWith(filename, "linux-libc-dev") THEN "linux-libc-dev"
    ELSE "linux-mptcp"

\* lines 120-148: the option of [Files] the cached check reads for a
\* filename; "" for a filename of no known kind
LookupKey(filename) ==
    IF StartsWith(filename, "linux-headers") THEN "linux-headers"
    ELSE IF StartsWith(filename, "linux-image") THEN "linux-image"
    ELSE IF StartsWith(filename, "linux-libc-dev") THEN "linux-libc-dev"
    ELSE IF StartsWith(filename, "linux-mptcp") THEN "linux-mptcp"
    ELSE ""

\* copy-paste slip: linux-libc-dev is recorded as linux-headers
RecordKeySlip(filename) ==
    IF StartsWith(filename, "linux-headers") THEN "linux-headers"
    ELSE IF StartsWith(filename, "linux-image") THEN "linux-image"
    ELSE IF StartsWith(filename, "linux-libc-dev") THEN "linux-headers"
    ELSE IF StartsWith(filename, "linux-mptcp") THEN "linux-mptcp"
    ELSE ""

\* lines 165-172: the option of [Files] a downloaded filename is recorded
\* under; "" when none is set
RecordKey(filename) ==
    IF StartsWith(filename, "linux-headers") THEN "linux-headers"
    ELSE IF StartsWith(filename, "linux-image") THEN "linux-image"
    ELSE IF StartsWith(filename, "linux-libc-dev") THEN "linux-libc-dev"
    ELSE IF StartsWith(filename, "linux-mptcp") THEN "linux-mptcp"
    ELSE ""

\* the -dbg check is missing
IsDebugNever(filename) == FALSE

\* lines 126-127: a debug kernel image
IsDebug(filename) == Contains(filename, "-dbg")

\* any recorded filename of the kind counts as the file
IsCachedByKey(prog, filename) == HasOption(prog.Files, LookupKey(filename))

\* lines 121, 134, 139, 144: the filename is the one recorded for its kind
\* (NoOptionError, lines 151-152, falls through to the download)
IsCached(prog, filename) ==
    /\ HasOption(prog.Files, LookupKey(filename))
    /\ Get(prog.Files, LookupKey(filename)) = filename

\* the latest version is set along with the filename
RecordWithVersion(prog, filename) ==
    IF RecordKey(filename) = "" THEN prog
    ELSE [prog EXCEPT !.Files = Set(@, RecordKey(filename), filename),
                      !.General = Set(@, "version", latest_version)]

\* lines 165-172
Record(prog, filename) ==
    IF RecordKey(filename) = "" THEN prog
    ELSE [prog EXCEPT !.Files = Set(@, RecordKey(filename), filename)]

\* the pattern is tried on every file and lacks the linux-image prefix
KernelVersionFromAny(filename, kv) ==
    IF LookupKey(filename) = "linux-image" THEN KernelVersionMatch(filename)
    ELSE IF \E i \in 1..(Len(filename) - 1) :
               filename[i] \in KernelVersions /\ filename[i + 1] = ".mptcp"
         THEN Some(<<filename[CHOOSE i \in 1..(Len(filename) - 1) :
                        filename[i] \in KernelVersions /\ filename[i + 1] = ".mptcp"]>>)
         ELSE kv

\* lines 125-133: kernel_version after the classification of filename
\* (None: no match, or still unbound)
KernelVersionAfter(filename, kv) ==
    IF LookupKey(filename) = "linux-image" THEN KernelVersionMatch(filename) ELSE kv

\* lines 118-173: one iteration of the for loop over files
ProcessFile ==
    /\ Running /\ pc = "loop"
    /\ LET filename == files[idx]
           key == LookupKey(filename)
           image == key = "linux-image"
           kv == KernelVersionAfter(filename, kernel_version)
       IN
       IF key = ""
       THEN /\ Finish("1", "UnknownFile")
            /\ UNCHANGED <<locals, world, effects>>
       ELSE IF image /\ IsDebug(filename)
       THEN /\ idx' = idx + 1
            /\ pc' = AfterFile(idx + 1, files, downloads)
            /\ UNCHANGED <<exit, err, _progress, downloads, kernel_version,
                           world, effects>>
       ELSE IF image /\ kv = None
       THEN /\ Finish("1", "KernelVersionExtractionError")
            /\ UNCHANGED <<locals, world, effects>>
       ELSE IF IsCached(_progress, filename)
       THEN /\ kernel_version' = kv
            /\ downloads' = Append(downloads, filename)
            /\ idx' = idx + 1
            /\ pc' = AfterFile(idx + 1, files, Append(downloads, filename))
            /\ UNCHANGED <<exit, err, _progress, world, effects>>
       ELSE \E server \in Servers :
            LET res == Request("GET", AssetUrl(latest_version, filename),
                               server)
                path == <<latest_version, filename>>
            IN
            /\ last_request' = res
            /\ kernel_version' = kv
            /\ IF Raised(res)
               THEN \* ua.get raises, or the connection breaks while the body
                    \* is written to the file opened with 'wb'
                    /\ Finish("exception", "RequestFailure")
                    /\ destdirs' \in {destdirs, destdirs \ {path}}
                    /\ UNCHANGED <<_progress, idx, downloads, progress_file,
                                   page, fetched, installed, grub_cfg,
                                   grub_calls, saves>>
               ELSE IF ~Ok(res)
               THEN \* raise_for_status()
                    /\ Finish("exception", "RequestFailure")
                    /\ UNCHANGED <<_progress, idx, downloads, world, fetched,
                                   installed, grub_cfg, grub_calls, saves>>
               ELSE
               /\ fetched' = Append(fetched, filename)
               /\ downloads' = Append(downloads, filename)
               /\ destdirs' = destdirs \cup {path}
               /\ UNCHANGED <<page, installed, grub_cfg, grub_calls>>
               /\ \/ \* recorded and saved
                     /\ _progress' = Record(_progress, filename)
                     /\ saves' = saves + 1
                     /\ progress_file' = Serialize(Record(_progress, filename))
                     /\ idx' = idx + 1
                     /\ pc' = AfterFile(idx + 1, files,
                                        Append(downloads, filename))
                     /\ UNCHANGED <<exit, err>>
                  \/ \* recorded; the process dies inside save_progress()
                     /\ _progress' = Record(_progress, filename)
                     /\ saves' = saves + 1
                     /\ progress_file' \in
                           TornWrites(Serialize(Record(_progress, filename)))
                     /\ Finish("killed", "TornSave")
                     /\ UNCHANGED idx
                  \/ \* the process dies before save_progress() is reached
                     /\ Finish("killed", "KilledBeforeSave")
                     /\ UNCHANGED <<_progress, saves, progress_file, idx>>
    /\ committed_from' = [committed_from EXCEPT
                             !.touched = @ \/ progress_file' # progress_file,
                             !.clean = @ /\ err' # "TornSave"]
    /\ UNCHANGED <<runs, latest_version, files, last_version, old_versions,
                   inst, file_at_start, prev>>

\* the loop over downloads stops after its first iteration
AfterInstallBreak(i, dl) == "grub"

\* lines 175-178: where control goes after the i-th dpkg -i succeeded
AfterInstall(i, dl) == IF i + 1 <= Len(dl) THEN "install" ELSE "grub"

\* lines 175-176: one dpkg -i; check_call raises when it exits non-zero
Install ==
    /\ Running /\ pc = "install"
    /\ installed' = Append(installed, downloads[inst])
    /\ \/ \* dpkg -i succeeds: the file it is given exists
          /\ <<latest_version, downloads[inst]>> \in destdirs
          /\ inst' = inst + 1
          /\ pc' = AfterInstall(inst, downloads)
          /\ UNCHANGED <<exit, err>>
       \/ /\ Finish("exception", "InstallFailure")
          /\ UNCHANGED inst
    /\ UNCHANGED <<world, runs, _progress, latest_version, files, last_version,
                   old_versions, idx, downloads, kernel_version, fetched,
                   grub_cfg, grub_calls, saves, last_request, file_at_start,
                   prev, committed_from>>

\* `needle in s` for a needle of several tokens
SubStr(needle, s) ==
    \E i \in 0..(Len(s) - Len(needle)) :
        \A j \in 1..Len(needle) : s[i + j] = needle[j]

\* line 51: re.search(r'^\s+menuentry\s', line)
IsMenuEntry(line) ==
    /\ line.indent
    /\ Len(line.text) >= 2 /\ line.text[1] = "menuentry" /\ line.text[2] = " "

\* the product marker is not looked for
IsTargetNoMarker(line, kv) ==
    /\ IsMenuEntry(line)
    /\ SubStr(kv \o <<".mptcp">>, line.text)

\* lines 50-57: the lines of grub.cfg the loop does not skip
IsTarget(line, kv) ==
    /\ IsMenuEntry(line)
    /\ Contains(line.text, "mptcp-advanced")
    /\ SubStr(kv \o <<".mptcp">>, line.text)

\* lines 50-66: the first target line, 0 when the loop ends without one
TargetLine(cfg, kv) ==
    LET hits == {i \in 1..Len(cfg) : IsTarget(cfg[i], kv)}
    IN  IF hits = {} THEN 0 ELSE CHOOSE k \in hits : \A j \in hits : k <= j

\* lines 60-65: the commands run for the target line, in order
\* (line.split()[-2] is the entry's identifier)
GrubCommands(line) ==
    LET w == Words(line.text)
    IN  << <<"sed">>, <<"update-grub">>, <<"grub-set-default">> \o w[Len(w) - 1] >>

\* lines 178 and 44-66: update_grub(kernel_version).  Reading a local that
\* no iteration assigned raises UnboundLocalError before the call.
UpdateGrub ==
    /\ Running /\ pc = "grub"
    /\ IF kernel_version = None
       THEN /\ Finish("exception", "UnboundLocalError")
            /\ UNCHANGED <<grub_cfg, grub_calls>>
       ELSE \E cfg \in GrubCfgs :
            LET t == TargetLine(cfg, kernel_version[1]) IN
            /\ grub_cfg' = cfg
            /\ IF t = 0
               THEN /\ grub_calls' = <<>>
                    /\ pc' = "commit"
                    /\ UNCHANGED <<exit, err>>
               ELSE \/ /\ grub_calls' = GrubCommands(cfg[t])
                       /\ pc' = "commit"
                       /\ UNCHANGED <<exit, err>>
                    \/ \* check_call raises at the n-th command
                       \E n \in 1..3 :
                          /\ grub_calls' = SubSeq(GrubCommands(cfg[t]), 1, n)
                          /\ Finish("exception", "BootloaderFailure")
    /\ UNCHANGED <<world, runs, locals, fetched, installed, saves,
                   last_request, file_at_start, prev, committed_from>>

\* lines 180-184: the record main() commits
Committed(prog, latest, kv, last, old) ==
    LET olds == IF Truthy(last) THEN Append(old, last[1]) ELSE old
    IN  [prog EXCEPT !.General =
            Set(Set(Set(@, "version", latest), "kernel_version", kv),
                "deprecated_versions", Join(olds))]

\* lines 180-187
Commit ==
    /\ Running /\ pc = "commit"
    /\ _progress' = Committed(_progress, latest_version, kernel_version[1],
                              last_version, old_versions)
    /\ old_versions' = IF Truthy(last_version)
                       THEN Append(old_versions, last_version[1])
                       ELSE old_versions
    /\ saves' = saves + 1
    /\ \/ /\ progress_file' = Serialize(_progress')
          /\ pc' = "end"
          /\ exit' = "0"
          /\ err' = "none"
       \/ \* the process dies inside save_progress()
          /\ progress_file' \in TornWrites(Serialize(_progress'))
          /\ Finish("killed", "TornSave")
    /\ UNCHANGED <<page, destdirs, runs, latest_version, files, last_version,
                   idx, downloads, kernel_version, inst, fetched, installed,
                   grub_cfg, grub_calls, last_request, file_at_start, prev>>
    /\ committed_from' = [files |-> files, touched |-> FALSE,
                          history |-> IF err' = "TornSave"
                                      THEN committed_from.history
                                      ELSE Append(committed_from.history,
                                                  latest_version),
                          clean |-> committed_from.clean /\ err' # "TornSave"]

\* lines 190-191: exit(main()); an uncaught exception ends the interpreter
\* with status 1
ExitCode(how) == IF how = "0" THEN 0 ELSE 1

\* The process is terminated from outside, between two steps
Kill ==
    /\ Running
    /\ Finish("killed", "none")
    /\ UNCHANGED <<world, runs, locals, effects, file_at_start, prev,
                   committed_from>>

Next ==
    \/ StartRun
    \/ FetchIndex
    \/ ProcessFile
    \/ Install
    \/ UpdateGrub
    \/ Commit
    \/ Kill

Spec == Init /\ [][Next]_vars

----------------------------------------------------------------------------
\* Vocabulary of the properties

\* An option of [General] as a later load of the file would see it
Stored(lines, key) ==
    IF HasOption(Load(lines).General, key)
    THEN Some(Get(Load(lines).General, key)) ELSE None

\* The baseline triple of a persisted file
Baseline(lines) ==
    <<Stored(lines, "version"), Stored(lines, "kernel_version"),
      Stored(lines, "deprecated_versions")>>

\* The latest version the release page announces, None when it has none
CatalogLatest(doc) ==
    IF LatestHeading(doc) = 0 THEN None
    ELSE Some(<<doc[LatestHeading(doc)].h2[Len(doc[LatestHeading(doc)].h2)]>>)

KnownPrefixes == {"linux-headers", "linux-image", "linux-libc-dev", "linux-mptcp"}
ClassOf(f) == IF f = <<>> THEN "" ELSE f[1]
IsDebugImage(f) == ClassOf(f) = "linux-image" /\ \E i \in 1..Len(f) : f[i] = "-dbg"
HasUnknown(fs) == \E i \in 1..Len(fs) : ClassOf(fs[i]) \notin KnownPrefixes
NonSkipped(fs) == SelectSeq(fs, LAMBDA f : ~IsDebugImage(f))
NoKernelImage(fs) ==
    \A i \in 1..Len(fs) : ClassOf(fs[i]) = "linux-image" => IsDebugImage(fs[i])

NoSideEffects ==
    /\ fetched = <<>> /\ installed = <<>>
    /\ grub_cfg = <<>> /\ grub_calls = <<>>
    /\ saves = 0 /\ progress_file = file_at_start

Aborted == exit \in {"1", "exception"}

----------------------------------------------------------------------------
\* C1: a run that finds the persisted General.version equal to the latest
\* version of the catalog returns 0 from the version check and fetches no
\* asset, installs nothing, runs no bootloader command and never writes
\* the progress file, which stays as it was when the run started.
C1_SteadyStateNoOp ==
    (runs > 0 /\ CatalogLatest(page) # None
              /\ CatalogLatest(page) = Stored(file_at_start, "version"))
    => /\ NoSideEffects
       /\ pc = "index"
       /\ (~Running /\ exit # "killed" /\ err # "RequestFailure") => exit = "0"

\* a second run against the catalog the first run committed returned 0
C1_Witness ==
    /\ runs = 2 /\ prev.exit = "0" /\ prev.pc = "end" /\ prev.page = page
    /\ pc = "index" /\ exit = "0"
    /\ Stored(file_at_start, "version") = CatalogLatest(page)

\* C2: a run that aborts on a fatal condition leaves the persisted baseline
\* triple (version, kernel_version, deprecated_versions) as it was before
\* the run; the persisted Files entries differ only by filenames downloaded
\* in this run, and the last download of each kind is the persisted entry.
C2_NoCommitOnFailure ==
    Aborted =>
        LET now == Load(progress_file).Files
            old == Load(file_at_start).Files
        IN  /\ Baseline(progress_file) = Baseline(file_at_start)
            /\ \A i \in 1..Len(now) :
                  now[i] \in Range(old) \/ now[i][2] \in Range(fetched)
            /\ \A i \in 1..Len(old) : HasOption(now, old[i][1])
            /\ \A i \in 1..Len(fetched) :
                  (\A j \in (i + 1)..Len(fetched) :
                        ClassOf(fetched[j]) # ClassOf(fetched[i]))
                  => /\ HasOption(now, ClassOf(fetched[i]))
                     /\ Get(now, ClassOf(fetched[i])) = fetched[i]

\* an upgrade run downloaded an asset and then failed, over a committed
\* baseline
C2_Witness ==
    /\ Aborted /\ fetched # <<>>
    /\ err \in {"InstallFailure", "BootloaderFailure"}
    /\ Stored(file_at_start, "version") # None
    /\ Baseline(progress_file) = Baseline(file_at_start)

\* No boot entry for the kernel version: no menuentry line of grub.cfg, at
\* any nesting, carries both the product marker and the version
NoBootEntry ==
    /\ grub_cfg # <<>>
    /\ kernel_version # None
    /\ \A i \in 1..Len(grub_cfg) :
          ~ /\ grub_cfg[i].text[1] = "menuentry"
            /\ \E j \in 1..Len(grub_cfg[i].text) : grub_cfg[i].text[j] = "mptcp-advanced"
            /\ \E j \in 1..(Len(grub_cfg[i].text) - 1) :
                  /\ <<grub_cfg[i].text[j]>> = kernel_version[1]
                  /\ grub_cfg[i].text[j + 1] = ".mptcp"

\* C3: when grub.cfg has no menu entry with both the product marker and the
\* installed kernel version, the run does not reach the commit, does not
\* end in success, and the persisted version stays at its previous value.
C3_NotFoundBlocksCommit ==
    NoBootEntry =>
        /\ pc # "end"
        /\ exit # "0"
        /\ Stored(progress_file, "version") = Stored(file_at_start, "version")

\* The previous process was killed in the artifact loop, and this one runs
\* against the same release page
Resumed ==
    /\ runs >= 2 /\ prev.exit = "killed" /\ prev.pc = "loop"
    /\ prev.page = page

\* C4: after a process is killed once artifact A was downloaded, recorded
\* and saved, and before any install, the next run against the same catalog
\* does not fetch A, and when it succeeds it has installed every
\* non-skipped artifact, run the bootloader step and committed.
C4_Resumability ==
    Resumed =>
        /\ \A a \in prev.recorded : a \notin Range(fetched)
        /\ exit = "0" /\ pc = "end"
           => /\ installed = NonSkipped(files)
              /\ grub_cfg # <<>>
              /\ Stored(progress_file, "version") = Some(latest_version)

\* The Files entries a later load would see differ from those before the
\* run only by filenames downloaded in this run
OnlyDownloadsDiffer ==
    LET now == Load(progress_file).Files
        old == Load(file_at_start).Files
    IN  /\ \A i \in 1..Len(now) :
              now[i] \in Range(old) \/ now[i][2] \in Range(fetched)
        /\ \A i \in 1..Len(old) : HasOption(now, old[i][1])

\* C5 as stated: with a filename of unknown prefix anywhere in the file
\* list, a run that gets past the version check and is not cut short by a
\* kill or a failed request ends with UnknownFile and exit code 1, has
\* installed nothing and run no bootloader command, and the progress file
\* is what it was before the run.
C5_UnknownFileStoreUntouched ==
    (HasUnknown(files) /\ ~Running /\ exit # "killed" /\ pc # "index"
                       /\ err # "RequestFailure")
    => /\ exit = "1" /\ err = "UnknownFile"
       /\ installed = <<>> /\ grub_cfg = <<>> /\ grub_calls = <<>>
       /\ progress_file = file_at_start

\* C5 amended: with a filename of unknown prefix in the file list, no run
\* installs anything, runs a bootloader command or commits; a run that
\* reaches that filename ends with UnknownFile and exit code 1 with the
\* baseline triple unchanged; the progress file is unchanged when nothing
\* was downloaded before the unknown file was reached, and otherwise
\* differs only in the Files entries of the artifacts downloaded before it.
C5_UnknownFileAborts ==
    HasUnknown(files) =>
        /\ installed = <<>> /\ grub_cfg = <<>> /\ grub_calls = <<>>
        /\ pc \in {"index", "loop"}
        /\ exit # "0" \/ pc = "index"
        /\ (pc = "loop" /\ ClassOf(files[idx]) \notin KnownPrefixes
                        /\ ~Running /\ exit # "killed")
           => exit = "1" /\ err = "UnknownFile"
        /\ err = "UnknownFile"
           => /\ exit = "1"
              /\ ClassOf(files[idx]) \notin KnownPrefixes
              /\ Baseline(progress_file) = Baseline(file_at_start)
              /\ OnlyDownloadsDiffer
              /\ fetched = <<>> => progress_file = file_at_start
              /\ fetched # <<>> => progress_file = Serialize(_progress)

\* the unknown file came second: the first file's download is persisted
C5_Witness ==
    /\ err = "UnknownFile" /\ exit = "1"
    /\ idx > 1 /\ fetched # <<>>
    /\ progress_file # file_at_start

\* The last non-skipped file of a list that has the class of f
LastOfClass(fs, f) ==
    LET same == SelectSeq(NonSkipped(fs), LAMBDA g : ClassOf(g) = ClassOf(f))
    IN  same[Len(same)]

\* C6 as stated: in every persisted state with version set, each class of
\* the asset list that version was committed from has one of that list's
\* files of the class recorded in Files.
C6_FilesMatchBaselineAlways ==
    Stored(progress_file, "version") # None =>
        \A f \in Range(NonSkipped(committed_from.files)) :
            /\ HasOption(Load(progress_file).Files, ClassOf(f))
            /\ \E g \in Range(NonSkipped(committed_from.files)) :
                  /\ ClassOf(g) = ClassOf(f)
                  /\ Get(Load(progress_file).Files, ClassOf(f)) = g

\* C6 amended: in every persisted state with version set in which no
\* download was recorded since the commit of that version, each class of
\* the asset list the version was committed from has that list's last
\* non-skipped file of the class recorded in Files.
C6_FilesMatchBaselineUntilDownload ==
    (Stored(progress_file, "version") # None /\ ~committed_from.touched) =>
        \A f \in Range(NonSkipped(committed_from.files)) :
            /\ HasOption(Load(progress_file).Files, ClassOf(f))
            /\ Get(Load(progress_file).Files, ClassOf(f))
                  = LastOfClass(committed_from.files, f)

\* a commit from a list with two files of one class, over an older commit
C6_Witness ==
    /\ exit = "0" /\ pc = "end" /\ runs = 2
    /\ Stored(file_at_start, "version") # None
    /\ Stored(progress_file, "version") = Some(latest_version)
    /\ \E i, j \in 1..Len(files) : i < j /\ ClassOf(files[i]) = ClassOf(files[j])
    /\ ~committed_from.touched

\* C7: a process killed inside save_progress() leaves a file that loads as
\* the complete new record or as the complete record persisted before.
C7_AtomicSave ==
    [][err' = "TornSave" =>
          Load(progress_file') \in {Load(progress_file), _progress'}]_vars

\* The bootloader step was entered / the commit was started in this run
BootloaderStepDone == grub_cfg # <<>>
CommitStarted == pc = "end" \/ (pc = "commit" /\ err = "TornSave")

\* C8: the bootloader is touched only after dpkg succeeded for every
\* non-skipped artifact of the batch, the commit comes only after the
\* bootloader step, and a failed install ends the run with no bootloader
\* action, no further install and no commit.
C8_InstallThenBootloaderThenCommit ==
    /\ (BootloaderStepDone \/ grub_calls # <<>>)
       => /\ installed = NonSkipped(files)
          /\ err # "InstallFailure"
          /\ ~HasUnknown(files)
    /\ CommitStarted => BootloaderStepDone
    /\ pc \in {"index", "loop"} => installed = <<>>
    /\ err = "InstallFailure"
       => /\ exit = "exception" /\ pc = "install"
          /\ ~BootloaderStepDone /\ grub_calls = <<>>
          /\ installed = SubSeq(NonSkipped(files), 1, inst)
          /\ Baseline(progress_file) = Baseline(file_at_start)

\* a commit after two installs and the three bootloader commands
C8_Witness ==
    /\ exit = "0" /\ pc = "end"
    /\ Len(installed) >= 2 /\ Len(grub_calls) = 3

\* C9: with no non-debug linux-image file in the catalog, a run that gets
\* past the version check never binds kernel_version, never reaches the
\* bootloader commands or the commit, never sets version or kernel_version,
\* and does not end in success.
C9_NoKernelImageNoCommit ==
    (runs > 0 /\ latest_version # <<>> /\ NoKernelImage(files)
              /\ last_version # Some(latest_version))
    => /\ kernel_version = None
       /\ exit # "0"
       /\ pc \notin {"commit", "end"}
       /\ ~BootloaderStepDone /\ grub_calls = <<>>
       /\ _progress.General = Load(file_at_start).General
       /\ Stored(progress_file, "version") \in {None, Stored(file_at_start, "version")}
       /\ Stored(progress_file, "kernel_version")
             \in {None, Stored(file_at_start, "kernel_version")}
       /\ (~Running /\ pc = "grub") => exit \in {"exception", "killed"}

\* an upgrade over a committed baseline, the new release having files but
\* no kernel image: the run installed them and then failed
C9_Witness ==
    /\ NoKernelImage(files) /\ files # <<>> /\ installed # <<>>
    /\ Stored(file_at_start, "kernel_version") # None
    /\ pc = "grub" /\ exit = "exception" /\ err = "UnboundLocalError"

\* The non-debug linux-image files among files[1..n]
ImagesSeen(n) ==
    {files[i] : i \in {k \in 1..n : ClassOf(files[k]) = "linux-image"
                                      /\ ~IsDebugImage(files[k])}}

\* C10: a linux-image file with the -dbg marker is never fetched, never
\* passed to dpkg, never recorded in Files, and never the file
\* kernel_version was extracted from.
C10_DebugImagesSkipped ==
    /\ \A f \in Range(fetched) \cup Range(downloads) \cup Range(installed) :
          ~IsDebugImage(f)
    /\ \A i \in 1..Len(_progress.Files) : ~IsDebugImage(_progress.Files[i][2])
    /\ \A i \in 1..Len(progress_file) : ~IsDebugImage(progress_file[i][2])
    /\ kernel_version # None
       => \E f \in ImagesSeen(IF Running /\ pc = "loop" THEN idx - 1
                              ELSE IF idx <= Len(files) THEN idx
                              ELSE Len(files)) :
             <<"linux-image", "-">> \o kernel_version[1] \o <<".mptcp">>
                = SubSeq(f, 1, 4)

\* a committed run whose catalog lists a debug image before the image
C10_Witness ==
    /\ exit = "0" /\ pc = "end"
    /\ \E i \in 1..Len(files) : IsDebugImage(files[i]) /\ i < Len(files)
    /\ IsDebugImage(files[1])

\* The sequence of release versions a delimiter-joined value stands for
VersionList(opt) ==
    IF opt = None \/ opt[1] = <<>> THEN <<>> ELSE Split(opt[1], ";")

\* The kernel version in the name of the batch's kernel image
BatchKernelVersion(fs) ==
    LET imgs == SelectSeq(NonSkipped(fs), LAMBDA f : ClassOf(f) = "linux-image")
    IN  SubSeq(imgs[Len(imgs)], 3, 3)

\* C11: a run that commits leaves a record with version = the catalog's
\* latest version, kernel_version = the version in the name of the batch's
\* kernel image, and deprecated_versions = the deprecated versions the run
\* started with, followed by the version it started with when there was one.
C11_CommitContent ==
    (pc = "end" /\ exit = "0") =>
        LET P == Stored(file_at_start, "version")
            before == VersionList(Stored(file_at_start, "deprecated_versions"))
        IN  /\ Stored(progress_file, "version") = Some(latest_version)
            /\ Stored(progress_file, "kernel_version")
                  = Some(BatchKernelVersion(files))
            /\ VersionList(Stored(progress_file, "deprecated_versions"))
                  = IF P = None THEN before ELSE Append(before, P[1])

\* C15: as long as every save completed, the deprecated versions a run
\* loads from the persisted record are the versions committed so far
\* without the last one, in commit order.
C15_DeprecatedHistory ==
    (committed_from.clean /\ committed_from.history # <<>>) =>
        OldVersions(Load(progress_file))
            = SubSeq(committed_from.history, 1,
                     Len(committed_from.history) - 1)

\* The run is over and the process ended by itself
Exited == exit \in {"0", "1", "exception"}

\* The file the loop stopped at
Current == IF idx <= Len(files) THEN files[idx] ELSE <<>>

\* C12: a run exits with 0 only when it committed or when it found the
\* committed version up to date; a run that met a file of unknown kind, a
\* kernel image without a kernel version, a release page without a version
\* heading or a failed request exits with 1.
C12_ExitCodes ==
    /\ (Exited /\ ExitCode(exit) = 0) =>
          \/ pc = "end" /\ Stored(progress_file, "version") = Some(latest_version)
          \/ /\ pc = "index" /\ NoSideEffects
             /\ Stored(file_at_start, "version") = CatalogLatest(page)
    /\ (HasUnknown(files) /\ pc # "index") => exit # "0"
    /\ (~Running /\ exit # "killed" /\ pc = "loop") =>
          /\ ExitCode(exit) = 1
          /\ \/ ClassOf(Current) \notin KnownPrefixes
             \/ /\ ClassOf(Current) = "linux-image" /\ ~IsDebugImage(Current)
                /\ KernelVersionMatch(Current) = None
             \/ last_request.status # "200"
    /\ (pc = "index" /\ Exited /\ last_request.status = "200"
          /\ CatalogLatest(page) = None) => ExitCode(exit) = 1
    /\ last_request.status \notin {"", "200"} => Exited /\ ExitCode(exit) = 1

\* a run ended by an asset request the server answered with an error status
C12_Witness ==
    /\ pc = "loop" /\ exit = "exception" /\ last_request.status = "503"
    /\ fetched # <<>>

\* The filename a load of the file finds recorded for a class
FilesEntry(lines, class) ==
    IF HasOption(Load(lines).Files, class)
    THEN Some(Get(Load(lines).Files, class)) ELSE None

\* The file the loop is at is one it goes on to install
Installable(f) ==
    /\ ClassOf(f) \in KnownPrefixes /\ ~IsDebugImage(f)
    /\ ClassOf(f) = "linux-image" => KernelVersionMatch(f) # None

\* The step is an iteration of the artifact loop, not an outside kill
LoopStep ==
    /\ Running /\ pc = "loop"
    /\ ~(exit' = "killed" /\ fetched' = fetched)

\* dpkg -i was run on the first non-skipped files of the catalog, in order
InstalledInOrder ==
    /\ \E n \in 0..Len(NonSkipped(files)) :
          installed = SubSeq(NonSkipped(files), 1, n)
    /\ pc \in {"grub", "commit", "end"} => installed = NonSkipped(files)

\* C13: in the artifact loop a non-skipped file is requested from the server
\* exactly when the filename persisted in Files for its class is absent or
\* another one; dpkg -i is run once on each non-skipped file, cached or
\* downloaded, in catalog order.
C13_FetchIfStale ==
    /\ []InstalledInOrder
    /\ [][(LoopStep /\ Installable(files[idx])) =>
            ((last_request' # last_request)
               <=> FilesEntry(progress_file, ClassOf(files[idx]))
                      # Some(files[idx]))]_vars

\* a committed run that found one file cached and downloaded another
C13_Witness ==
    /\ pc = "end" /\ exit = "0"
    /\ fetched # <<>> /\ Len(fetched) < Len(installed)

\* The process is between two artifacts, or past the artifact loop
BetweenArtifacts == Running /\ pc \in {"loop", "install", "grub", "commit"}

\* The request of this step was answered with a status that is no success
FetchFailed ==
    /\ last_request' # last_request
    /\ last_request'.status \notin {"200", "reset"}

\* C14: a loop iteration that downloaded a file leaves its name persisted
\* in Files under the file's class before the loop goes on, so between
\* artifacts the persisted record is the in-memory record; an iteration
\* whose request is answered with an error status changes neither.
C14_PerArtifactDurability ==
    /\ [](BetweenArtifacts => Load(progress_file) = _progress)
    /\ [][(LoopStep /\ fetched' # fetched /\ exit' = "running") =>
            /\ FilesEntry(progress_file', ClassOf(files[idx])) = Some(files[idx])
            /\ progress_file' = Serialize(_progress')]_vars
    /\ [][(LoopStep /\ FetchFailed) =>
            /\ _progress' = _progress /\ progress_file' = progress_file
            /\ exit' = "exception"]_vars

\* the loop goes on after a download that replaced a recorded filename,
\* the run having started from a record with a committed version
C14_Witness ==
    /\ Running /\ pc = "loop" /\ Len(fetched) = 1 /\ idx = 2
    /\ Stored(file_at_start, "version") # None
    /\ FilesEntry(file_at_start, ClassOf(files[1])) \notin {None, Some(files[1])}
    /\ FilesEntry(progress_file, ClassOf(files[1])) = Some(files[1])

\* A line of grub.cfg that opens a menu entry, nested in a submenu or not
OpensEntry(line) == line.text # <<>> /\ line.text[1] = "menuentry"

\* The line names the product marker and the kernel version
Matches(line, kv) ==
    /\ \E i \in 1..Len(line.text) : line.text[i] = "mptcp-advanced"
    /\ \E i \in 1..(Len(line.text) - 1) :
          line.text[i] = kv /\ line.text[i + 1] = ".mptcp"

\* The first of the given lines of cfg that matches, 0 when none does
FirstMatch(cfg, kv, Among(_)) ==
    LET hits == {i \in 1..Len(cfg) : Among(cfg[i]) /\ Matches(cfg[i], kv)}
    IN  IF hits = {} THEN 0 ELSE CHOOSE k \in hits : \A j \in hits : k <= j

\* The identifier of a menu entry, and the three commands that select it
EntryId(line) == SubSeq(line.text, 8, 11)
SelectCommands(line) ==
    << <<"sed">>, <<"update-grub">>, <<"grub-set-default">> \o EntryId(line) >>

\* The bootloader step of this run did what selecting line t of grub.cfg
\* asks for, nothing when t = 0
ActsOn(t) ==
    IF t = 0 THEN grub_calls = <<>> /\ err # "BootloaderFailure"
    ELSE /\ \E n \in 1..3 : grub_calls = SubSeq(SelectCommands(grub_cfg[t]), 1, n)
         /\ err # "BootloaderFailure" => grub_calls = SelectCommands(grub_cfg[t])
         /\ err = "BootloaderFailure" => exit = "exception" /\ pc = "grub"

\* C16 as stated: the bootloader step acts on the first menu entry of
\* grub.cfg that names the product marker and the kernel version, running
\* the three commands in order up to the first failure, and runs none of
\* them when no menu entry matches.
C16_FirstEntrySelected ==
    BootloaderStepDone =>
        ActsOn(FirstMatch(grub_cfg, kernel_version[1][1], OpensEntry))

\* A menu entry line that begins with whitespace
IndentedEntry(line) == OpensEntry(line) /\ line.indent

\* C16: the bootloader step acts on the first menu entry line beginning
\* with whitespace that names the product marker and the kernel version,
\* running the three commands in order up to the first failure, and runs
\* none of them when no such line matches.
C16_FirstIndentedEntrySelected ==
    BootloaderStepDone =>
        ActsOn(FirstMatch(grub_cfg, kernel_version[1][1], IndentedEntry))

\* the second command failed for an entry that follows other entries
C16_Witness ==
    /\ BootloaderStepDone /\ err = "BootloaderFailure" /\ Len(grub_calls) = 2
    /\ FirstMatch(grub_cfg, kernel_version[1][1], IndentedEntry) = 4

\* No element occurs twice in the sequence
NoRepeat(seq) == \A i, j \in 1..Len(seq) : seq[i] = seq[j] => i = j

\* C17: a GET of the release page or of an asset whose first answer is one
\* of the statuses 500, 502, 503, 504, 521 is attempted again, at most three
\* attempts in all, and fails the run only when the last attempt fails;
\* no dpkg or grub command is run twice in a run.
C17_RetryPolicy ==
    /\ (last_request.method = "GET"
          /\ last_request.first \in {"500", "502", "503", "504", "521"}) =>
          /\ last_request.attempts \in 2..3
          /\ last_request.status # "200" => last_request.attempts = 3
    /\ NoRepeat(installed) /\ NoRepeat(grub_calls)

\* The filenames a release page lists
Listed(doc) ==
    UNION {Range(DebFiles(doc[i].pre)) : i \in 1..Len(doc)}

\* The previous process got through the artifact loop of this same release
\* page and ended before its commit
RerunAfterLoop ==
    /\ runs >= 2 /\ prev.page = page
    /\ prev.pc \in {"install", "grub"}

\* C18: the cached check and the record use the same key, the prefix of
\* the filename; past the artifact loop Files holds one filename for each
\* class of the catalog, a non-skipped file of that class; and a run
\* against the same catalog after a run that got through the loop requests
\* no asset, every non-skipped file being found cached.
C18_OneCurrentPerClass ==
    /\ \A p \in Pages : \A f \in Listed(p) :
          /\ LookupKey(f) = RecordKey(f)
          /\ LookupKey(f) = IF ClassOf(f) \in KnownPrefixes THEN ClassOf(f) ELSE ""
    /\ (Running /\ pc \in {"install", "grub", "commit"}) =>
          \A f \in Range(NonSkipped(files)) :
             \E g \in Range(NonSkipped(files)) :
                /\ ClassOf(g) = ClassOf(f)
                /\ FilesEntry(progress_file, ClassOf(f)) = Some(g)
    /\ RerunAfterLoop =>
          /\ fetched = <<>>
          /\ last_request.url \in {<<>>, BASEURL}

\* C19: every file dpkg -i is run on was completely downloaded into the
\* directory of the version being installed, the files found cached
\* included.
C19_InstalledFilesExist ==
    \A f \in Range(installed) : <<latest_version, f>> \in destdirs

\* The release page is one the program can converge on: every file of its
\* latest release is of a known class, and a kernel image is among them
GoodCatalog(doc) ==
    /\ LatestHeading(doc) # 0
    /\ LET fs == DebFiles(doc[LatestHeading(doc)].pre) IN
       /\ ~HasUnknown(fs)
       /\ \E i \in 1..Len(fs) :
             /\ ClassOf(fs[i]) = "linux-image" /\ ~IsDebugImage(fs[i])
             /\ KernelVersionMatch(fs[i]) # None

\* C20: when the program is run again against the same release page, one
\* whose files are all of known classes with a kernel image among them, no
\* file the previous run downloaded successfully is downloaded again, and
\* no run downloads a file twice.
C20_FetchedAtMostOnce ==
    /\ NoRepeat(fetched)
    /\ (runs >= 2 /\ prev.page = page /\ GoodCatalog(page)) =>
          \A f \in Range(fetched) : f \notin prev.fetched

\* A run finds the version up to date though no run ever completed a commit
UpToDateWithoutCommit ==
    /\ pc = "index" /\ exit = "0" /\ prev.page = page /\ GoodCatalog(page)
    /\ committed_from.history = <<>>
    /\ Stored(progress_file, "kernel_version") = None

\* A save was torn, the previous run ended in the artifact loop, and this
\* run downloads again a file that one downloaded
AgainAfterTornSave ==
    /\ runs >= 2 /\ prev.page = page /\ GoodCatalog(page)
    /\ prev.pc = "loop" /\ committed_from.clean = FALSE
    /\ \E f \in Range(fetched) : f \in prev.fetched

====
